---- MODULE Spec2Model ----
(***************************************************************************)
(* ScholarWriter Pro: the highlight reconstructor of the rewrite pipeline  *)
(* (server/services/gemini.ts) and the session store with the handlers of  *)
(* the paraphrase and upload requests (server/routes.ts, storage.ts),      *)
(* the GET and DELETE of a session, the timers that sweep the tables and   *)
(* the uploads directory (storage.ts, services/fileHandler.ts), and of the *)
(* client the hook useParaphraser and the page's renderHighlightedText.    *)
(*                                                                         *)
(* Texts are sequences of one-character strings; string offsets are the    *)
(* 0-based offsets of JavaScript, so the character at offset k of s is     *)
(* s[k+1].                                                                 *)
(***************************************************************************)
EXTENDS Integers, Sequences, FiniteSets, TLC

VARIABLES
    paraphrasedText,  \* generateHighlights: its first argument
    changes,          \* generateHighlights: the array object passed as second argument
    changesIn,        \* the elements of that array at the moment of the call
    pushed,           \* local `highlights` once the for-loop of lines 149-160 has ended
    sorted,           \* local `highlights` once line 172 has sorted it
    merged,           \* the value generateHighlights returns
    hpc,              \* "input" while the arguments are assembled, "done" once it
                      \* returned, "rendered" once the client rendered the
                      \* result, "off" where no direct call is made
    parts,            \* renderHighlightedText: the pieces it returns
    now,              \* the clock read by new Date() and by the database's now()
    sessions,         \* table paraphrasing_sessions: sessionId -> row
    files,            \* table uploaded_files: the set of its rows
    disk,             \* directory uploads/: file path -> time of last modification
    reqs,             \* the HTTP requests: request -> where its handler stands
    timers,           \* the interval timers of the server process that are armed
    client            \* the state of the hook useParaphraser of one browser tab

hvars == <<paraphrasedText, changes, changesIn, pushed, sorted, merged, hpc, parts>>

svars == <<now, sessions, files, disk, reqs, timers, client>>

vars == <<paraphrasedText, changes, changesIn, pushed, sorted, merged, hpc, parts,
          now, sessions, files, disk, reqs, timers, client>>

----------------------------------------------------------------------------
(* Bounds of the model *)

MaxTextLen == 3
MaxPhraseLen == 2
MaxInputSize == 13
MaxRequests == 2
MaxTime == 3

Chars == {"a", "b"}

Kinds == {"synonym", "grammar", "tone"}

\* the kinds the bounded inputs draw from
InputKinds == {"synonym", "grammar"}

\* a nullable value: << >> for null or undefined, <<v>> for the value v
None == << >>

Some(v) == <<v>>

Max(a, b) == IF a >= b THEN a ELSE b

MinOf(S) == CHOOSE x \in S : \A y \in S : x <= y

SeqsUpTo(S, n) == UNION {[1..k -> S] : k \in 0..n}

----------------------------------------------------------------------------
(* String.prototype.indexOf(searchString, position): the position is       *)
(* clamped into 0..length, then the least offset k >= position at which    *)
(* searchString occurs, or -1. The empty searchString occurs at the        *)
(* clamped position itself.                                                *)

OccursAt(s, sub, k) ==
    /\ k >= 0
    /\ k + Len(sub) <= Len(s)
    /\ \A j \in 1..Len(sub) : s[k + j] = sub[j]

indexOf(s, sub, position) ==
    LET start == IF position < 0 THEN 0
                 ELSE IF position > Len(s) THEN Len(s) ELSE position
        hits == {k \in start..Len(s) : OccursAt(s, sub, k)}
    IN  IF hits = {} THEN -1 ELSE MinOf(hits)

(* Array.prototype.sort with a comparator on an integer key: a stable      *)
(* sort. StableOrder(keys)[k] is the index of the element that ends at     *)
(* place k.                                                                *)
StableOrder(keys) ==
    LET n == Len(keys)
        Before(j, i) == keys[j] < keys[i] \/ (keys[j] = keys[i] /\ j < i)
        Rank(i) == Cardinality({j \in 1..n : Before(j, i)}) + 1
    IN  [k \in 1..n |-> CHOOSE i \in 1..n : Rank(i) = k]

Permute(s, p) == [k \in 1..Len(s) |-> s[p[k]]]

\* changes.sort((a, b) => a.startIndex - b.startIndex), line 147
SortChangesNot(cs) == cs

SortChanges(cs) ==
    Permute(cs, StableOrder([i \in 1..Len(cs) |-> cs[i].startIndex]))

\* highlights.sort((a, b) => a.start - b.start), line 172
SortHighlightsNot(hs) == hs

SortHighlights(hs) ==
    Permute(hs, StableOrder([i \in 1..Len(hs) |-> hs[i].start]))

\* phraseIndex !== -1, line 153
FoundAlways(phraseIndex) == TRUE

Found(phraseIndex) == phraseIndex # -1

\* the highlight pushed for one change, lines 151-158: <<>> or one element
Candidate(text, change) ==
    LET phraseIndex == indexOf(text, change.paraphrased, change.startIndex)
    IN  IF Found(phraseIndex)
        THEN << [start |-> phraseIndex,
                 end   |-> phraseIndex + Len(change.paraphrased),
                 type  |-> change.type] >>
        ELSE << >>

\* the for-loop of lines 149-160 over sortedChanges
RECURSIVE PushAll(_, _)
PushAll(text, sortedChanges) ==
    IF sortedChanges = << >> THEN << >>
    ELSE Candidate(text, Head(sortedChanges)) \o PushAll(text, Tail(sortedChanges))

\* the test of line 181
MergeCondStrict(current, next) ==
    next.start < current.end /\ next.type = current.type

MergeCondOtherType(current, next) ==
    next.start <= current.end /\ next.type # current.type

MergeCond(current, next) ==
    next.start <= current.end /\ next.type = current.type

\* the loop of lines 177-187 and the push of line 189
RECURSIVE MergeLoop(_, _, _, _)
MergeLoop(hs, i, current, acc) ==
    IF i > Len(hs) THEN Append(acc, current)
    ELSE LET next == hs[i]
         IN  IF MergeCond(current, next)
             THEN MergeLoop(hs, i + 1,
                            [current EXCEPT !.end = Max(current.end, next.end)], acc)
             ELSE MergeLoop(hs, i + 1, next, Append(acc, current))

mergeOverlappingHighlights(highlights) ==
    IF Len(highlights) = 0 THEN highlights
    ELSE LET hs == SortHighlights(highlights)
         IN  MergeLoop(hs, 2, hs[1], << >>)

generateHighlights(text, cs) ==
    mergeOverlappingHighlights(PushAll(text, SortChanges(cs)))

----------------------------------------------------------------------------
(* The session store and the request handlers.                             *)
(* The clock counts hours; it may advance between any two steps of a       *)
(* handler, each await being a point where other work runs.                *)

\* expiresAt.setHours(expiresAt.getHours() + 2), routes.ts lines 35 and 97
TTL == 2

ReqIds == 1..MaxRequests

\* the file multer stores for request r (dest: 'uploads/')
PathOf(r) == r

ValidModes == {"academic", "formal", "creative", "seo", "simplify"}

ValidCitationFormats == {"APA", "MLA", "Chicago"}

\* a schema that lets every body pass
SchemaAcceptsAny(body) == TRUE

\* paraphraseRequestSchema.parse accepts the body, schema.ts lines 51-57
SchemaAccepts(body) ==
    /\ Len(body.text) >= 1
    /\ body.mode \in ValidModes
    /\ body.citationFormat = None \/ body.citationFormat[1] \in ValidCitationFormats

\* the request bodies tried
Bodies ==
    { [text |-> <<"x">>, mode |-> "academic", citationFormat |-> Some("MLA")],
      [text |-> <<"x">>, mode |-> "simplify", citationFormat |-> None],
      [text |-> << >>,   mode |-> "academic", citationFormat |-> Some("APA")],
      [text |-> <<"x">>, mode |-> "casual",   citationFormat |-> Some("APA")],
      [text |-> <<"x">>, mode |-> "formal",   citationFormat |-> Some("Harvard")] }

NoBody == [text |-> << >>, mode |-> "", citationFormat |-> None]

\* what ai.models.generateContent gives: it throws ("throw"), response.text
\* is empty ("empty"), JSON.parse throws ("unparseable"), the text parses to
\* null ("jsonNull"), or it parses to an object ("json") whose
\* paraphrasedText and changes are each present or not.
OracleFailure(kind) ==
    [kind |-> kind, paraphrasedText |-> None, changes |-> None]

OraclePayload(text, cs) ==
    [kind |-> "json", paraphrasedText |-> text, changes |-> cs]

SampleChange(ph, k, h) == [paraphrased |-> ph, type |-> k, startIndex |-> h]

OracleResponses ==
    { OracleFailure("throw"), OracleFailure("empty"),
      OracleFailure("unparseable"), OracleFailure("jsonNull"),
      OraclePayload(Some(<<"a", "b">>), Some(<< >>)),
      OraclePayload(Some(<<"a", "b">>), None),
      OraclePayload(Some(<<"a", "b">>),
                    Some(<< SampleChange(<<"b">>, "tone", 0),
                            SampleChange(<<"a", "b">>, "synonym", 0) >>)),
      OraclePayload(Some(<<"a", "b">>),
                    Some(<< SampleChange(<< >>, "grammar", 5) >>)),
      OraclePayload(None, Some(<< >>)),
      OraclePayload(None, None),
      OraclePayload(None, Some(<< SampleChange(<<"a">>, "synonym", 0) >>)) }

NoResult == [ok |-> FALSE, paraphrasedText |-> None, highlights |-> None]

\* a call that returns an empty result whatever the oracle did
paraphraseTextOrEmpty(response) ==
    [ok |-> TRUE, paraphrasedText |-> None, highlights |-> Some(<< >>)]

\* paraphraseText from the oracle's response on, lines 104-137: the value it
\* returns, or ok = FALSE when it throws. result.changes || [] makes absent
\* changes the empty list; with no paraphrasedText the first change makes
\* paraphrasedText.indexOf throw, and no change lets the call return.
paraphraseText(response) ==
    IF response.kind # "json" THEN NoResult
    ELSE LET cs == IF response.changes = None THEN << >> ELSE response.changes[1]
         IN  IF response.paraphrasedText = None
             THEN IF cs = << >>
                  THEN [ok |-> TRUE, paraphrasedText |-> None,
                        highlights |-> Some(<< >>)]
                  ELSE NoResult
             ELSE [ok |-> TRUE,
                   paraphrasedText |-> response.paraphrasedText,
                   highlights |-> Some(generateHighlights(
                                           response.paraphrasedText[1], cs))]

\* the uploads tried: no file, or a file of a type the fileFilter lets pass
Uploads ==
    { "none", "text/plain", "application/pdf",
      "application/vnd.openxmlformats-officedocument.wordprocessingml.document" }

\* an extraction that returns for every file
ExtractableAlways(path, mimetype) == TRUE

\* extractTextFromFile returns (text/plain, the file readable) or throws
Extractable(path, mimetype) == mimetype = "text/plain" /\ path \in DOMAIN disk

IdleReq ==
    [kind |-> "none", pc |-> "idle", body |-> NoBody, mimetype |-> "",
     expiresAt |-> 0, result |-> NoResult, status |-> 0,
     sessionId |-> 0, nth |-> 0]

\* the timers armed when the modules are loaded: two by the constructor of
\* the storage, one by the file handler
AllTimers == {"deleteExpiredFiles", "optimizeDatabase", "cleanupExpiredFiles"}

SInit ==
    /\ now = 0
    /\ sessions = << >>
    /\ files = {}
    /\ disk = << >>
    /\ reqs = [r \in ReqIds |-> IdleReq]
    /\ timers = AllTimers
    /\ client = [currentSessionId |-> None, result |-> None, seen |-> {}]

\* table insert with created_at defaultNow(), storage.ts lines 51-57
createParaphrasingSession(sessionId, body, expiresAt) ==
    sessionId :> [originalText    |-> body.text,
                  paraphrasedText |-> None,
                  mode            |-> body.mode,
                  citationFormat  |-> IF body.citationFormat = None THEN "APA"
                                      ELSE body.citationFormat[1],
                  highlights      |-> None,
                  createdAt       |-> now,
                  expiresAt       |-> expiresAt]

\* an update that inserts the row it does not find
upsertParaphrasingSession(sessionId, result) ==
    [s \in DOMAIN sessions \cup {sessionId} |->
        IF s = sessionId
        THEN [originalText    |-> << >>,
              paraphrasedText |-> result.paraphrasedText,
              mode            |-> "academic",
              citationFormat  |-> "APA",
              highlights      |-> result.highlights,
              createdAt       |-> now,
              expiresAt       |-> now + TTL]
        ELSE sessions[s]]

\* an update that also renews the lifetime of the row
updateAndRenewSession(sessionId, result) ==
    IF sessionId \in DOMAIN sessions
    THEN [sessions EXCEPT
             ![sessionId].paraphrasedText =
                 IF result.paraphrasedText = None THEN @ ELSE result.paraphrasedText,
             ![sessionId].highlights = result.highlights,
             ![sessionId].expiresAt = now + TTL]
    ELSE sessions

\* UPDATE ... SET ... WHERE session_id = sessionId, storage.ts lines 67-74: no
\* row, no change. A value that is undefined is left out of SET and null is
\* written as null: either way the column of a session that was not yet
\* updated stays null.
updateParaphrasingSession(sessionId, result) ==
    IF sessionId \in DOMAIN sessions
    THEN [sessions EXCEPT
             ![sessionId].paraphrasedText =
                 IF result.paraphrasedText = None THEN @ ELSE result.paraphrasedText,
             ![sessionId].highlights = result.highlights]
    ELSE sessions

\* table insert with uploaded_at defaultNow(), storage.ts lines 76-82
createUploadedFile(sessionId, path, mimetype, expiresAt) ==
    [sessionId |-> sessionId, filePath |-> path, fileType |-> mimetype,
     uploadedAt |-> now, expiresAt |-> expiresAt]

\* cleanupFile, fileHandler.ts lines 29-39: unlink when the file exists
cleanupFile(path) == [p \in DOMAIN disk \ {path} |-> disk[p]]

\* oneDayAgo.setHours(oneDayAgo.getHours() - 24), storage.ts line 123
StaleHours == 24

\* the clock advances by an hour
Tick ==
    /\ now % StaleHours < MaxTime
    /\ now' = now + 1
    /\ UNCHANGED <<sessions, files, disk, reqs>>
    /\ UNCHANGED <<timers, client>>
    /\ UNCHANGED hvars

\* the clock advances by a day, once
TickDay ==
    /\ now < StaleHours
    /\ now' = now + StaleHours
    /\ UNCHANGED <<sessions, files, disk, reqs>>
    /\ UNCHANGED <<timers, client>>
    /\ UNCHANGED hvars

\* POST /api/paraphrase, lines 31-35: parse the body; on a ZodError answer
\* 400 (lines 70-74), else draw the session id and compute expiresAt.
\* nanoid() gives an id no other request has: the request's own number.
ParaphraseReceiveWith(r, body) ==
    /\ reqs[r].pc = "idle"
    /\ body \in Bodies
    /\ IF SchemaAccepts(body)
       THEN reqs' = [reqs EXCEPT ![r] = [@ EXCEPT !.kind = "paraphrase",
                         !.pc = "create", !.body = body, !.expiresAt = now + TTL]]
       ELSE reqs' = [reqs EXCEPT ![r] = [@ EXCEPT !.kind = "paraphrase",
                         !.pc = "done", !.body = body, !.status = 400]]
    /\ UNCHANGED <<now, sessions, files, disk>>
    /\ UNCHANGED <<timers, client>>
    /\ UNCHANGED hvars

ParaphraseReceive(r) == \E body \in Bodies : ParaphraseReceiveWith(r, body)

\* lines 38-47: the insert of the pending session
ParaphraseCreate(r) ==
    /\ reqs[r].kind = "paraphrase"
    /\ reqs[r].pc = "create"
    /\ sessions' = sessions @@ createParaphrasingSession(r, reqs[r].body, reqs[r].expiresAt)
    /\ reqs' = [reqs EXCEPT ![r].pc = "oracle"]
    /\ UNCHANGED <<now, files, disk>>
    /\ UNCHANGED <<timers, client>>
    /\ UNCHANGED hvars

\* line 50: the oracle answers and paraphraseText returns or throws; a throw
\* is answered 500 (lines 75-79)
ParaphraseOracleWith(r, response) ==
    /\ reqs[r].kind = "paraphrase"
    /\ reqs[r].pc = "oracle"
    /\ response \in OracleResponses
    /\ LET result == paraphraseText(response)
       IN  IF result.ok
           THEN reqs' = [reqs EXCEPT ![r] = [@ EXCEPT !.pc = "update", !.result = result]]
           ELSE reqs' = [reqs EXCEPT ![r] = [@ EXCEPT !.pc = "done", !.status = 500]]
    /\ UNCHANGED <<now, sessions, files, disk>>
    /\ UNCHANGED <<timers, client>>
    /\ UNCHANGED hvars

ParaphraseOracle(r) == \E response \in OracleResponses : ParaphraseOracleWith(r, response)

\* lines 53-66: the update of the session, then the answer 200
ParaphraseUpdate(r) ==
    /\ reqs[r].kind = "paraphrase"
    /\ reqs[r].pc = "update"
    /\ sessions' = updateParaphrasingSession(r, reqs[r].result)
    /\ reqs' = [reqs EXCEPT ![r] = [@ EXCEPT !.pc = "done", !.status = 200]]
    /\ UNCHANGED <<now, files, disk>>
    /\ UNCHANGED <<timers, client>>
    /\ UNCHANGED hvars

\* POST /api/upload, lines 10-27 and 89: the middleware upload.single('file')
\* runs before the handler and writes the uploaded file, if the request has
\* one, into uploads/; the file's time of last modification is the time of
\* this write
UploadMulterWith(r, mimetype) ==
    /\ reqs[r].pc = "idle"
    /\ mimetype \in Uploads
    /\ reqs' = [reqs EXCEPT ![r] = [@ EXCEPT !.kind = "upload",
                    !.pc = "handler", !.mimetype = mimetype]]
    /\ disk' = IF mimetype = "none" THEN disk
               ELSE disk @@ (PathOf(r) :> now)
    /\ UNCHANGED <<now, sessions, files>>
    /\ UNCHANGED <<timers, client>>
    /\ UNCHANGED hvars

UploadMulter(r) == \E mimetype \in Uploads : UploadMulterWith(r, mimetype)

\* lines 89-97, the handler: with no file answer 400, else draw the session
\* id and compute expiresAt from the clock as it is now
UploadReceive(r) ==
    /\ reqs[r].kind = "upload"
    /\ reqs[r].pc = "handler"
    /\ IF reqs[r].mimetype = "none"
       THEN reqs' = [reqs EXCEPT ![r] = [@ EXCEPT !.pc = "done", !.status = 400]]
       ELSE reqs' = [reqs EXCEPT ![r] = [@ EXCEPT !.pc = "extract",
                         !.expiresAt = now + TTL]]
    /\ UNCHANGED <<now, sessions, files, disk>>
    /\ UNCHANGED <<timers, client>>
    /\ UNCHANGED hvars

\* line 100: extractTextFromFile; when it throws, lines 120-132: the stored
\* file is cleaned up and the answer is 500
UploadExtract(r) ==
    /\ reqs[r].kind = "upload"
    /\ reqs[r].pc = "extract"
    /\ IF Extractable(PathOf(r), reqs[r].mimetype)
       THEN /\ reqs' = [reqs EXCEPT ![r].pc = "store"]
            /\ disk' = disk
       ELSE /\ reqs' = [reqs EXCEPT ![r] = [@ EXCEPT !.pc = "done", !.status = 500]]
            /\ disk' = cleanupFile(PathOf(r))
    /\ UNCHANGED <<now, sessions, files>>
    /\ UNCHANGED <<timers, client>>
    /\ UNCHANGED hvars

\* the insert of line 103 returns or throws
InsertOutcomes == {"ok", "insertThrows"}

\* lines 103-118: the insert of the file's row, then the answer 200; when
\* the insert throws, the catch block of lines 120-138 deletes the stored
\* file and answers 500
UploadStoreWith(r, outcome) ==
    /\ reqs[r].kind = "upload"
    /\ reqs[r].pc = "store"
    /\ IF outcome = "ok"
       THEN /\ files' = files \cup {createUploadedFile(r, PathOf(r), reqs[r].mimetype,
                                                       reqs[r].expiresAt)}
            /\ reqs' = [reqs EXCEPT ![r] = [@ EXCEPT !.pc = "done", !.status = 200]]
            /\ disk' = disk
       ELSE /\ files' = files
            /\ reqs' = [reqs EXCEPT ![r] = [@ EXCEPT !.pc = "done", !.status = 500]]
            /\ disk' = cleanupFile(PathOf(r))
    /\ UNCHANGED <<now, sessions>>
    /\ UNCHANGED <<timers, client>>
    /\ UNCHANGED hvars

UploadStore(r) == \E outcome \in InsertOutcomes : UploadStoreWith(r, outcome)

\* drizzle's lt(column, value): column < value
lt(column, value) == column < value

\* table paraphrasing_sessions after a DELETE ... WHERE that matches the
\* rows of the ids in matched
DeleteSessions(matched) ==
    [s \in DOMAIN sessions \ matched |-> sessions[s]]

\* a handler that runs two DELETE statements one after the other inside one
\* try block: both run, or the first throws and the second is not run, or
\* the second throws after the first has run
DbOutcomes == {"ok", "firstThrows", "secondThrows"}

\* an error that is thrown again by the catch block
RethrownWhenThrown(outcome) == outcome # "ok"

\* Each sweep runs its statements inside try, and the catch block logs the
\* error and returns: no outcome leaves the callback of the timer.
Rethrown(outcome) == FALSE

\* The timers that are armed after a callback ended: a callback is an async
\* function whose promise nobody awaits, so an error leaving it is an
\* unhandled rejection, which ends the process and with it every timer.
TimersAfter(outcome) == IF Rethrown(outcome) THEN {} ELSE timers

\* deleteExpiredFiles, storage.ts lines 92-110, run by the 5-minute timer of
\* line 23: one reading of the clock, DELETE of the files with
\* expiresAt < now, then DELETE of the sessions with expiresAt < now; what
\* is thrown is logged and the timer goes on
deleteExpiredFilesWith(outcome) ==
    /\ "deleteExpiredFiles" \in timers
    /\ files' = IF outcome = "firstThrows" THEN files
                ELSE {f \in files : ~lt(f.expiresAt, now)}
    /\ sessions' = IF outcome = "ok"
                   THEN DeleteSessions({s \in DOMAIN sessions :
                                             lt(sessions[s].expiresAt, now)})
                   ELSE sessions
    /\ UNCHANGED <<now, disk, reqs>>
    /\ timers' = TimersAfter(outcome)
    /\ UNCHANGED client
    /\ UNCHANGED hvars

deleteExpiredFiles == \E outcome \in DbOutcomes : deleteExpiredFilesWith(outcome)

\* a threshold that forgets to go back a day
oneDayAgoIsNow(t) == t

\* oneDayAgo of optimizeDatabase, storage.ts lines 122-123
oneDayAgo(t) == t - StaleHours

\* a sweep that stops after its first statement
optimizeSessionsOnly(outcome) ==
    /\ sessions' = IF outcome = "firstThrows" THEN sessions
                   ELSE DeleteSessions({s \in DOMAIN sessions :
                                             sessions[s].createdAt < now - StaleHours})
    /\ UNCHANGED <<now, files, disk, reqs>>
    /\ UNCHANGED <<timers, client>>
    /\ UNCHANGED hvars

\* optimizeDatabase, storage.ts lines 119-137, run by the 30-minute timer of
\* line 28: DELETE of the sessions with createdAt < oneDayAgo, then DELETE
\* of the files with uploadedAt < oneDayAgo; what is thrown is logged
optimizeDatabaseWith(outcome) ==
    /\ "optimizeDatabase" \in timers
    /\ sessions' = IF outcome = "firstThrows" THEN sessions
                   ELSE DeleteSessions({s \in DOMAIN sessions :
                                             lt(sessions[s].createdAt, oneDayAgo(now))})
    /\ files' = IF outcome = "ok"
                THEN {f \in files : ~lt(f.uploadedAt, oneDayAgo(now))}
                ELSE files
    /\ UNCHANGED <<now, disk, reqs>>
    /\ timers' = TimersAfter(outcome)
    /\ UNCHANGED client
    /\ UNCHANGED hvars

optimizeDatabase == \E outcome \in DbOutcomes : optimizeDatabaseWith(outcome)

\* maxAge of cleanupExpiredFiles, fileHandler.ts line 61: 2 hours
maxAge == 2

\* cleanupExpiredFiles, fileHandler.ts lines 51-74, run by the 30-minute
\* timer of line 77: every file of uploads/ whose mtime is more than maxAge
\* ago is handed to cleanupFile
FsOutcomes == {"ok", "statThrows"}

\* visited: the directory entries the loop has dealt with when it ends; all
\* of them unless readdir or a stat threw
cleanupExpiredFilesWith(outcome, visited) ==
    /\ "cleanupExpiredFiles" \in timers
    /\ visited \subseteq DOMAIN disk
    /\ outcome = "ok" => visited = DOMAIN disk
    /\ disk' = [p \in {q \in DOMAIN disk :
                          ~(q \in visited /\ now - disk[q] > maxAge)} |-> disk[p]]
    /\ timers' = TimersAfter(outcome)
    /\ UNCHANGED <<now, sessions, files, reqs, client>>
    /\ UNCHANGED hvars

cleanupExpiredFiles ==
    \E outcome \in FsOutcomes : \E visited \in SUBSET DOMAIN disk :
        cleanupExpiredFilesWith(outcome, visited)

\* getUploadedFilesBySession, storage.ts lines 84-90
getUploadedFilesBySession(sessionId) == {f \in files : f.sessionId = sessionId}

\* a delete whose WHERE clause matches no row
deleteFilesOfNoSession(sessionId) == files

\* deleteFilesBySession, storage.ts lines 112-116
deleteFilesBySession(sessionId) == {f \in files : f.sessionId # sessionId}

\* the session ids a client has been told: those of the requests answered 200
\* by POST /api/paraphrase (line 59) and POST /api/upload (line 113)
KnownIds ==
    {s \in ReqIds : reqs[s].kind \in {"paraphrase", "upload"} /\ reqs[s].status = 200}

\* a request slot that is free for a GET or a DELETE: never used, or holding
\* the answer of an earlier GET or DELETE of the client
Free(r) ==
    \/ reqs[r].pc = "idle"
    \/ reqs[r].kind \in {"get", "clear"} /\ reqs[r].pc = "done"

\* a test of expiry that never finds a session expired
ExpiredNever(session, t) == FALSE

\* session.expiresAt < new Date(), routes.ts line 151
Expired(session, t) == session.expiresAt < t

\* the read of the session's row returns, or it throws
ReadOutcomes == {"ok", "readThrows"}

\* GET /api/session/:sessionId, routes.ts lines 142-161: the row is read (a
\* throw is answered 500), then the clock: no row 404,
\* expiresAt < new Date() 410, else 200
GetSessionStatus(sessionId, outcome) ==
    IF outcome = "readThrows" THEN 500
    ELSE IF sessionId \notin DOMAIN sessions THEN 404
    ELSE IF Expired(sessions[sessionId], now) THEN 410
    ELSE 200

GetSessionWith(r, sessionId, outcome) ==
    /\ Free(r)
    /\ sessionId \in KnownIds
    /\ reqs' = [reqs EXCEPT ![r] = [IdleReq EXCEPT !.kind = "get",
                     !.pc = "done", !.sessionId = sessionId,
                     !.status = GetSessionStatus(sessionId, outcome)]]
    /\ UNCHANGED <<now, sessions, files, disk>>
    /\ UNCHANGED <<timers, client>>
    /\ UNCHANGED hvars

GetSession(r) ==
    \E sessionId \in ReqIds : \E outcome \in ReadOutcomes :
        GetSessionWith(r, sessionId, outcome)

\* the outcomes of DELETE /api/session/:sessionId: the read of the files'
\* rows throws, or it returns and deleteUserSession ends as DbOutcomes says
ClearOutcomes == {"readThrows"} \cup DbOutcomes

\* deleteUserSession, storage.ts lines 140-154: deleteFilesBySession, then
\* DELETE of the session's row, inside a try whose catch logs and returns
deleteUserSessionFiles(sessionId, outcome) ==
    IF outcome = "firstThrows" THEN files ELSE deleteFilesBySession(sessionId)

deleteUserSessionSessions(sessionId, outcome) ==
    IF outcome = "ok" THEN DeleteSessions({sessionId}) ELSE sessions

\* how many times in a row the client has sent this DELETE from slot r
NthCall(r, sessionId) ==
    IF reqs[r].kind = "clear" /\ reqs[r].sessionId = sessionId THEN 2 ELSE 1

\* DELETE /api/session/:sessionId, routes.ts lines 164-183, and POST
\* /api/session/:sessionId/cleanup, lines 186-205, which has the same body:
\* the files' rows are read (a throw is answered 500), each file is handed
\* to cleanupFile, deleteUserSession is called and the answer is 200
ClearSessionWith(r, sessionId, outcome) ==
    /\ Free(r)
    /\ sessionId \in KnownIds
    /\ IF outcome = "readThrows"
       THEN /\ reqs' = [reqs EXCEPT ![r] = [IdleReq EXCEPT !.kind = "clear",
                            !.pc = "done", !.sessionId = sessionId,
                            !.nth = NthCall(r, sessionId), !.status = 500]]
            /\ UNCHANGED <<sessions, files, disk>>
       ELSE /\ disk' = [p \in DOMAIN disk \
                              {f.filePath : f \in getUploadedFilesBySession(sessionId)}
                        |-> disk[p]]
            /\ files' = deleteUserSessionFiles(sessionId, outcome)
            /\ sessions' = deleteUserSessionSessions(sessionId, outcome)
            /\ reqs' = [reqs EXCEPT ![r] = [IdleReq EXCEPT !.kind = "clear",
                            !.pc = "done", !.sessionId = sessionId,
                            !.nth = NthCall(r, sessionId), !.status = 200]]
    /\ now' = now
    /\ UNCHANGED <<timers, client>>
    /\ UNCHANGED hvars

ClearSession(r) ==
    \E sessionId \in ReqIds : \E outcome \in ClearOutcomes :
        ClearSessionWith(r, sessionId, outcome)

Init ==
    /\ SInit
    /\ paraphrasedText = << >>
    /\ changes = << >>
    /\ changesIn = << >>
    /\ pushed = << >>
    /\ sorted = << >>
    /\ merged = << >>
    /\ hpc = "off"
    /\ parts = << >>

Next ==
    \/ Tick
    \/ \E r \in ReqIds : ParaphraseReceive(r)
    \/ \E r \in ReqIds : ParaphraseCreate(r)
    \/ \E r \in ReqIds : ParaphraseOracle(r)
    \/ \E r \in ReqIds : ParaphraseUpdate(r)
    \/ \E r \in ReqIds : UploadMulter(r)
    \/ \E r \in ReqIds : UploadReceive(r)
    \/ \E r \in ReqIds : UploadExtract(r)
    \/ \E r \in ReqIds : UploadStore(r)

Spec == Init /\ [][Next]_vars

\* The server with its timers and with the client's GET and DELETE. The
\* bodies and the oracle responses tried are fewer: one body the schema
\* accepts and one it rejects; the oracle throwing, a payload with text and
\* changes, and a payload with neither.
StoreBodies ==
    { [text |-> <<"x">>, mode |-> "academic", citationFormat |-> Some("MLA")],
      [text |-> << >>,   mode |-> "academic", citationFormat |-> Some("APA")] }

StoreResponses ==
    { OracleFailure("throw"),
      OraclePayload(Some(<<"a", "b">>),
                    Some(<< SampleChange(<<"b">>, "tone", 0),
                            SampleChange(<<"a", "b">>, "synonym", 0) >>)),
      OraclePayload(None, None) }

\* the uploads tried: one whose text can be extracted and one whose
\* extraction throws
StoreUploads == {"text/plain", "application/pdf"}

NextStore ==
    \/ Tick
    \/ TickDay
    \/ deleteExpiredFiles
    \/ optimizeDatabase
    \/ cleanupExpiredFiles
    \/ \E r \in ReqIds : \E body \in StoreBodies : ParaphraseReceiveWith(r, body)
    \/ \E r \in ReqIds : ParaphraseCreate(r)
    \/ \E r \in ReqIds : \E response \in StoreResponses : ParaphraseOracleWith(r, response)
    \/ \E r \in ReqIds : ParaphraseUpdate(r)
    \/ \E r \in ReqIds : \E mimetype \in StoreUploads : UploadMulterWith(r, mimetype)
    \/ \E r \in ReqIds : UploadReceive(r)
    \/ \E r \in ReqIds : UploadExtract(r)
    \/ \E r \in ReqIds : UploadStore(r)
    \/ \E r \in ReqIds : GetSession(r)
    \/ \E r \in ReqIds : ClearSession(r)

SpecStore == Init /\ [][NextStore]_vars

----------------------------------------------------------------------------
(* The client hook useParaphraser (client/src/hooks/use-paraphraser.ts) of *)
(* one browser tab. Every paraphrase and upload request of this            *)
(* specification is sent by the hook's paraphrase and uploadFile.          *)

\* lines 37-40 and 71-73, onSuccess of paraphraseMutation and of
\* uploadMutation: the response of request r arrives; both store the
\* response's sessionId over the one kept so far, the former also keeps the
\* response as the result shown
HookOnSuccess(r) ==
    /\ reqs[r].kind \in {"paraphrase", "upload"}
    /\ reqs[r].status = 200
    /\ r \notin client.seen
    /\ client' = [client EXCEPT
                     !.currentSessionId = Some(r),
                     !.result = IF reqs[r].kind = "paraphrase" THEN Some(r) ELSE @,
                     !.seen = @ \cup {r}]
    /\ UNCHANGED <<now, sessions, files, disk, reqs, timers>>
    /\ UNCHANGED hvars

\* lines 79-87 and 97-103, clearSession: with no session id kept, only the
\* result shown is dropped; else DELETE /api/session/:id is sent for the id
\* kept, the server runs its handler (routes.ts lines 164-183), and on the
\* answer 200 the hook drops the result and the id; on the answer 500 it
\* keeps both
HookClearSessionWith(outcome) ==
    /\ outcome \in ClearOutcomes
    /\ IF client.currentSessionId = None
       THEN /\ client' = [client EXCEPT !.result = None]
            /\ UNCHANGED <<sessions, files, disk>>
       ELSE LET sessionId == client.currentSessionId[1]
            IN  IF outcome = "readThrows"
                THEN UNCHANGED <<client, sessions, files, disk>>
                ELSE /\ disk' = [p \in DOMAIN disk \
                                     {f.filePath : f \in getUploadedFilesBySession(sessionId)}
                                 |-> disk[p]]
                     /\ files' = deleteUserSessionFiles(sessionId, outcome)
                     /\ sessions' = deleteUserSessionSessions(sessionId, outcome)
                     /\ client' = [client EXCEPT !.currentSessionId = None,
                                                 !.result = None]
    /\ UNCHANGED <<now, reqs, timers>>
    /\ UNCHANGED hvars

HookClearSession == \E outcome \in ClearOutcomes : HookClearSessionWith(outcome)

NextClient ==
    \/ Tick
    \/ \E r \in ReqIds : \E body \in StoreBodies : ParaphraseReceiveWith(r, body)
    \/ \E r \in ReqIds : ParaphraseCreate(r)
    \/ \E r \in ReqIds : \E response \in StoreResponses : ParaphraseOracleWith(r, response)
    \/ \E r \in ReqIds : ParaphraseUpdate(r)
    \/ \E r \in ReqIds : \E mimetype \in StoreUploads : UploadMulterWith(r, mimetype)
    \/ \E r \in ReqIds : UploadReceive(r)
    \/ \E r \in ReqIds : UploadExtract(r)
    \/ \E r \in ReqIds : UploadStore(r)
    \/ \E r \in ReqIds : HookOnSuccess(r)
    \/ HookClearSession

SpecClient == Init /\ [][NextClient]_vars

----------------------------------------------------------------------------
(* The calls of generateHighlights: the arguments are assembled one change *)
(* at a time, then the function is applied.                                *)

Texts == SeqsUpTo(Chars, MaxTextLen)

Phrases == SeqsUpTo(Chars, MaxPhraseLen)

\* the size of one change: its four scalar fields (original, type, startIndex,
\* endIndex) and the characters of its paraphrased phrase
ChangeSize(c) == 4 + Len(c.paraphrased)

RECURSIVE ChangesSize(_)
ChangesSize(cs) ==
    IF cs = << >> THEN 0 ELSE ChangeSize(Head(cs)) + ChangesSize(Tail(cs))

InputSize(text, cs) == Len(text) + ChangesSize(cs)

\* the start hints tried for a text: before its start, inside it, past its end
Hints(text) == -1 .. Len(text) + 1

ExampleText ==
    << "T", "h", "e", " ", "c", "a", "t", " ", "s", "a", "t", " ", "d", "o",
       "w", "n", " ", "o", "n", " ", "t", "h", "e", " ", "m", "a", "t", "." >>

ExampleChanges ==
    << [paraphrased |-> << "s", "a", "t", " ", "d", "o", "w", "n" >>,
        type |-> "grammar", startIndex |-> 4] >>

\* a call with three changes: two synonym changes whose phrases overlap in
\* the text, and a grammar change whose phrase starts between their starts
InterleavedText == << "a", "b", "a" >>

InterleavedChanges ==
    << [paraphrased |-> << "a", "b" >>, type |-> "synonym", startIndex |-> 0],
       [paraphrased |-> << "b" >>,      type |-> "grammar", startIndex |-> 0],
       [paraphrased |-> << "b", "a" >>, type |-> "synonym", startIndex |-> 1] >>

HInit ==
    /\ \/ paraphrasedText \in Texts /\ changes = << >>
       \/ paraphrasedText = ExampleText /\ changes = ExampleChanges
       \/ paraphrasedText = InterleavedText /\ changes = InterleavedChanges
    /\ changesIn = << >>
    /\ pushed = << >>
    /\ sorted = << >>
    /\ merged = << >>
    /\ hpc = "input"
    /\ parts = << >>
    /\ SInit

AddChange ==
    /\ hpc = "input"
    /\ InputSize(paraphrasedText, changes) + ChangeSize([paraphrased |-> << >>]) <= MaxInputSize
    /\ \E ph \in Phrases :
         /\ InputSize(paraphrasedText, changes) + ChangeSize([paraphrased |-> ph]) <= MaxInputSize
         /\ \E k \in InputKinds, h \in Hints(paraphrasedText) :
                changes' = Append(changes, [paraphrased |-> ph, type |-> k, startIndex |-> h])
    /\ UNCHANGED <<paraphrasedText, changesIn, pushed, sorted, merged, hpc, parts>>
    /\ UNCHANGED svars

CallGenerateHighlights ==
    /\ hpc = "input"
    /\ changesIn' = changes
    /\ LET sortedChanges == SortChanges(changes)
           highlights == PushAll(paraphrasedText, sortedChanges)
       IN  /\ changes' = sortedChanges
           /\ pushed' = highlights
           /\ sorted' = SortHighlights(highlights)
           /\ merged' = mergeOverlappingHighlights(highlights)
    /\ hpc' = "done"
    /\ UNCHANGED <<paraphrasedText, parts>>
    /\ UNCHANGED svars

\* String.prototype.slice(start, end): a negative index counts from the end,
\* both indices are clamped to the string, and the result is empty when the
\* start is not before the end
slice(text, start, end) ==
    LET from == IF start < 0 THEN Max(Len(text) + start, 0)
                ELSE MinOf({start, Len(text)})
        to   == IF end < 0 THEN Max(Len(text) + end, 0)
                ELSE MinOf({end, Len(text)})
    IN  IF from < to THEN SubSeq(text, from + 1, to) ELSE << >>

\* renderHighlightedText, client page (src/unnamed/part_000) lines 134-148:
\* the forEach over the sorted highlights. A piece is the text it shows and
\* the class of its span ("" for a bare string).
RECURSIVE RenderLoop(_, _, _, _)
RenderLoop(text, hs, lastIndex, acc) ==
    IF hs = << >> THEN [parts |-> acc, lastIndex |-> lastIndex]
    ELSE LET highlight == Head(hs)
             before == IF highlight.start > lastIndex
                       THEN Append(acc, [text |-> slice(text, lastIndex, highlight.start),
                                         className |-> ""])
                       ELSE acc
         IN  RenderLoop(text, Tail(hs), highlight.end,
                        Append(before,
                               [text |-> slice(text, highlight.start, highlight.end),
                                className |-> highlight.type]))

\* lines 122-156: the text itself when there are no highlights, else the
\* pieces of the loop and the text after the last highlight
renderHighlightedText(text, highlights) ==
    IF highlights = << >> THEN << [text |-> text, className |-> ""] >>
    ELSE LET r == RenderLoop(text, SortHighlights(highlights), 0, << >>)
         IN  IF r.lastIndex < Len(text)
             THEN Append(r.parts, [text |-> slice(text, r.lastIndex, Len(text)),
                                   className |-> ""])
             ELSE r.parts

\* the page renders the result of the call; the sort of line 135 is in place
RenderHighlightedText ==
    /\ hpc = "done"
    /\ parts' = renderHighlightedText(paraphrasedText, merged)
    /\ merged' = SortHighlights(merged)
    /\ hpc' = "rendered"
    /\ UNCHANGED <<paraphrasedText, changes, changesIn, pushed, sorted>>
    /\ UNCHANGED svars

HNext == AddChange \/ CallGenerateHighlights \/ RenderHighlightedText

SpecHL == HInit /\ [][HNext]_vars

----------------------------------------------------------------------------
(* Properties of generateHighlights, checked under SpecHL *)

Done == hpc = "done"

\* every claim passed in has a non-empty phrase
PhrasesNonEmpty == \A i \in 1..Len(changesIn) : changesIn[i].paraphrased # << >>

OccursAnywhere(s, sub) == \E k \in 0..Len(s) : OccursAt(s, sub, k)

RemoveAt(s, i) == SubSeq(s, 1, i - 1) \o SubSeq(s, i + 1, Len(s))

\* C1: every highlight returned satisfies 0 <= start < end <= length of the
\* rewritten text, also for an empty rewritten phrase and for start hints
\* outside the text.
C1_HighlightBounds ==
    Done => \A i \in 1..Len(merged) :
                /\ 0 <= merged[i].start
                /\ merged[i].start < merged[i].end
                /\ merged[i].end <= Len(paraphrasedText)

C3_SameKindCoalesced ==
    Done =>
        /\ \A i \in 1..(Len(merged) - 1) :
               merged[i].type = merged[i + 1].type
                   => merged[i + 1].start > merged[i].end
        /\ (/\ Len(sorted) = 2
            /\ sorted[1].type = sorted[2].type
            /\ sorted[2].start <= sorted[1].end)
               => merged = << [start |-> sorted[1].start,
                               end   |-> Max(sorted[1].end, sorted[2].end),
                               type  |-> sorted[1].type] >>

C3_Witness ==
    /\ Done
    /\ Len(sorted) = 2
    /\ sorted[1].type = sorted[2].type
    /\ sorted[1].start < sorted[1].end
    /\ sorted[2].start = sorted[1].end
    /\ sorted[2].start < sorted[2].end
    /\ Len(merged) = 1

\* C4: the returned sequence is sorted by start, non-decreasing.
C4_SortedByStart ==
    Done => \A i \in 1..(Len(merged) - 1) :
                merged[i].start <= merged[i + 1].start

C4_Witness ==
    /\ Done
    /\ PhrasesNonEmpty
    /\ Len(merged) >= 2
    /\ pushed # sorted

\* C5: a claim whose phrase occurs nowhere in the rewritten text pushes no
\* highlight, and the result is the result of the call without that claim.
C5_DroppedClaim ==
    Done =>
        /\ Len(pushed) <= Cardinality({i \in 1..Len(changesIn) :
                   OccursAnywhere(paraphrasedText, changesIn[i].paraphrased)})
        /\ \A i \in 1..Len(changesIn) :
               ~OccursAnywhere(paraphrasedText, changesIn[i].paraphrased)
                   => merged = generateHighlights(paraphrasedText, RemoveAt(changesIn, i))

C5_Witness ==
    /\ Done
    /\ PhrasesNonEmpty
    /\ merged # << >>
    /\ \E i \in 1..Len(changesIn) :
           ~OccursAnywhere(paraphrasedText, changesIn[i].paraphrased)

\* the candidate the specification gives a claim: at the first offset >= the
\* start hint at which the phrase occurs, none when there is no such offset
FirstOccurrenceCandidate(text, change) ==
    LET occ == {k \in 0..Len(text) :
                   k >= change.startIndex /\ OccursAt(text, change.paraphrased, k)}
    IN  IF occ = {} THEN << >>
        ELSE << [start |-> MinOf(occ),
                 end   |-> MinOf(occ) + Len(change.paraphrased),
                 type  |-> change.type] >>

RECURSIVE FirstOccurrenceCandidates(_, _)
FirstOccurrenceCandidates(text, cs) ==
    IF cs = << >> THEN << >>
    ELSE FirstOccurrenceCandidate(text, Head(cs))
             \o FirstOccurrenceCandidates(text, Tail(cs))

\* C6: each claim's candidate starts at the first offset >= its start hint at
\* which its phrase occurs and ends the phrase's length later; a claim whose
\* phrase occurs only before its hint gives no candidate; the example of the
\* cat gives exactly the span 8..16 of kind grammar.
C6_CandidateAtFirstOccurrence ==
    Done =>
        /\ pushed = FirstOccurrenceCandidates(paraphrasedText, changes)
        /\ (paraphrasedText = ExampleText /\ changesIn = ExampleChanges)
               => merged = << [start |-> 8, end |-> 16, type |-> "grammar"] >>

\* C7 as claimed: candidates with the same start are ordered, merged and
\* returned in the order of their claims in the list passed in, whatever the
\* start hints.
C7_TieBreakClaimOrder ==
    Done =>
        /\ sorted = SortHighlights(PushAll(paraphrasedText, changesIn))
        /\ merged = mergeOverlappingHighlights(PushAll(paraphrasedText, changesIn))

\* C7 as amended: candidates are ordered by start; those with the same start
\* by their claims' start hints, ascending; those with the same start and
\* the same hint in the order of their claims in the list passed in.
C7_TieBreakHintThenClaimOrder ==
    Done =>
        LET surv == {i \in 1..Len(changesIn) :
                        Candidate(paraphrasedText, changesIn[i]) # << >>}
            cand(i) == Candidate(paraphrasedText, changesIn[i])[1]
            hint(i) == changesIn[i].startIndex
            Less(j, i) ==
                \/ cand(j).start < cand(i).start
                \/ cand(j).start = cand(i).start /\ hint(j) < hint(i)
                \/ cand(j).start = cand(i).start /\ hint(j) = hint(i) /\ j < i
            Rank(i) == Cardinality({j \in surv : Less(j, i)}) + 1
        IN  /\ Len(sorted) = Cardinality(surv)
            /\ \A i \in surv : sorted[Rank(i)] = cand(i)

C7_Witness ==
    /\ Done
    /\ PhrasesNonEmpty
    /\ \E i, j \in 1..Len(changesIn) :
           /\ i < j
           /\ changesIn[i].startIndex > changesIn[j].startIndex
           /\ changesIn[i].type # changesIn[j].type
           /\ Candidate(paraphrasedText, changesIn[i]) # << >>
           /\ Candidate(paraphrasedText, changesIn[j]) # << >>
           /\ Candidate(paraphrasedText, changesIn[i])[1].start
                  = Candidate(paraphrasedText, changesIn[j])[1].start

\* C8: after the call the claims array holds the same elements in the same
\* order as before it.
C8_InputsUnchanged ==
    Done => changes = changesIn

----------------------------------------------------------------------------
(* Properties of the session store, checked under Spec *)

\* C9: every stored Session has expiresAt = createdAt + 2 hours and every
\* stored UploadedFile has expiresAt = uploadedAt + 2 hours, exactly.
C9_TtlExact ==
    /\ \A s \in DOMAIN sessions :
           sessions[s].expiresAt = sessions[s].createdAt + TTL
    /\ \A f \in files : f.expiresAt = f.uploadedAt + TTL

\* C10: every stored Session has rewrittenText and highlights both null or
\* both set, whatever the oracle answered.
C10_PendingOrComplete ==
    \A s \in DOMAIN sessions :
        (sessions[s].paraphrasedText = None) <=> (sessions[s].highlights = None)

\* C11: right after a run of deleteExpiredFiles that read the time now and
\* did not fail, no stored Session and no stored UploadedFile has
\* expiresAt <= now, expiresAt = now included.
C11_SweepExpiredComplete ==
    [][deleteExpiredFilesWith("ok") =>
          /\ \A s \in DOMAIN sessions' : sessions'[s].expiresAt > now
          /\ \A f \in files' : f.expiresAt > now]_vars

\* C12: a Session that was created and is no longer stored is not stored
\* after any later step; the update of a rewrite that was in flight when the
\* Session was removed does not insert it.
C12_NoResurrection ==
    [][\A s \in ReqIds :
          ( /\ reqs[s].kind = "paraphrase"
            /\ reqs[s].pc \in {"oracle", "update", "done"}
            /\ s \notin DOMAIN sessions )
          => s \notin DOMAIN sessions']_vars

\* the Session expired and was swept while its rewrite was in flight
C12_Witness ==
    \E s \in ReqIds :
        /\ reqs[s].kind = "paraphrase"
        /\ reqs[s].pc = "update"
        /\ s \notin DOMAIN sessions

\* C13: the update of a Session that is not stored fails, so the paraphrase
\* request whose Session is gone at the update is not answered 200.
C13_UpdateOfMissingFails ==
    [][\A r \in ReqIds :
          (ParaphraseUpdate(r) /\ r \notin DOMAIN sessions)
          => reqs'[r].status # 200]_vars

\* C14: when DELETE /api/session/:id (or POST .../cleanup) answers 200, the
\* store holds no Session with that id and no UploadedFile with that
\* sessionId (so a removal that failed is not answered 200).
C14_ClearedWhenAnswered200 ==
    [][\A r \in ReqIds : \A sessionId \in ReqIds : \A outcome \in ClearOutcomes :
          (ClearSessionWith(r, sessionId, outcome) /\ reqs'[r].status = 200) =>
              /\ sessionId \notin DOMAIN sessions'
              /\ \A f \in files' : f.sessionId # sessionId]_vars

\* C15: a call of DELETE /api/session/:id whose statements all run is
\* answered 200 and leaves no Session and no UploadedFile of that id; made
\* in the state such a call left, it changes nothing in the store.
C15_ClearIdempotent ==
    [][\A r \in ReqIds : \A sessionId \in ReqIds :
          ClearSessionWith(r, sessionId, "ok") =>
              /\ reqs'[r].status = 200
              /\ sessionId \notin DOMAIN sessions'
              /\ \A f \in files' : f.sessionId # sessionId
              /\ ( /\ sessionId \notin DOMAIN sessions
                   /\ \A f \in files : f.sessionId # sessionId )
                 => /\ sessions' = sessions
                    /\ files' = files
                    /\ disk' = disk]_vars

\* the client sent the same DELETE a second time, and nothing of the id is
\* stored
C15_Witness ==
    \E r \in ReqIds :
        /\ reqs[r].kind = "clear"
        /\ reqs[r].nth = 2
        /\ reqs[r].status = 200
        /\ reqs[r].sessionId \notin DOMAIN sessions
        /\ \A f \in files : f.sessionId # reqs[r].sessionId

\* C16: a paraphrase request whose text is empty, whose mode is none of the
\* five modes, or whose citationFormat is given and none of APA, MLA,
\* Chicago is answered 400 with no Session created and the oracle not
\* called; no other paraphrase request is answered 400.
C16_InvalidBodyRejected ==
    \A r \in ReqIds :
        reqs[r].kind = "paraphrase" =>
            LET body == reqs[r].body
                invalid ==
                    \/ body.text = << >>
                    \/ body.mode \notin {"academic", "formal", "creative", "seo", "simplify"}
                    \/ /\ body.citationFormat # None
                       /\ body.citationFormat[1] \notin {"APA", "MLA", "Chicago"}
            IN  IF invalid
                THEN /\ reqs[r].pc = "done"
                     /\ reqs[r].status = 400
                     /\ reqs[r].result = NoResult
                     /\ r \notin DOMAIN sessions
                ELSE reqs[r].status # 400

C16_Witness ==
    /\ \E r \in ReqIds :
           /\ reqs[r].kind = "paraphrase"
           /\ reqs[r].status = 400
           /\ reqs[r].body.citationFormat = Some("Harvard")
    /\ \E r \in ReqIds :
           /\ reqs[r].kind = "paraphrase"
           /\ reqs[r].status = 200
           /\ reqs[r].body.citationFormat = None

\* C17: an oracle response that is empty, that does not parse, or whose
\* payload lacks the rewritten text or the list of changes makes
\* paraphraseText fail: the request ends without the answer 200 and without
\* the update of its Session.
C17_MalformedResponseFails ==
    [][\A r \in ReqIds : \A response \in OracleResponses :
          ( /\ \/ response.kind \in {"empty", "unparseable", "jsonNull"}
               \/ response.kind = "json" /\ response.paraphrasedText = None
               \/ response.kind = "json" /\ response.changes = None
            /\ ParaphraseOracleWith(r, response) )
          => /\ reqs'[r].pc = "done"
             /\ reqs'[r].status = 500]_vars

\* C18: GET /api/session/:id, when its read of the store returns, answers
\* 404 exactly when no Session of that id is stored, 410 exactly when one is
\* stored whose expiresAt is earlier than the current time, and 200 exactly
\* when one is stored whose expiresAt is not earlier than the current time;
\* whatever the read does, the answer is 200 only for a stored Session whose
\* expiresAt is not earlier than the current time.
C18_GetSessionAnswer ==
    [][\A r \in ReqIds : \A sessionId \in ReqIds :
          LET status == reqs'[r].status
              stored == sessionId \in DOMAIN sessions
          IN  /\ GetSessionWith(r, sessionId, "ok") =>
                    /\ status \in {200, 404, 410}
                    /\ status = 404 <=> ~stored
                    /\ status = 410 <=>
                           stored /\ sessions[sessionId].expiresAt < now
                    /\ status = 200 <=>
                           stored /\ sessions[sessionId].expiresAt >= now
              /\ ( /\ \E outcome \in ReadOutcomes :
                          GetSessionWith(r, sessionId, outcome)
                    /\ status = 200 )
                 => stored /\ sessions[sessionId].expiresAt >= now]_vars

\* the Session created at T is queried at T + 3 hours, before any sweep has
\* removed it, and the answer is 410
C18_Witness ==
    \E r \in ReqIds :
        /\ reqs[r].kind = "get"
        /\ reqs[r].status = 410
        /\ reqs[r].sessionId \in DOMAIN sessions
        /\ now = sessions[reqs[r].sessionId].createdAt + 3

C20_SweepsSpareAlive ==
    [][(deleteExpiredFiles \/ optimizeDatabase) =>
          /\ \A s \in DOMAIN sessions :
                 s \notin DOMAIN sessions' => sessions[s].expiresAt <= now
          /\ \A f \in files : f \notin files' => f.expiresAt <= now]_vars

\* no DELETE was sent, yet the Session of an answered request is gone: a
\* sweep removed it, and it left the row of an upload in the store
C20_Witness ==
    /\ \A r \in ReqIds : reqs[r].kind \in {"paraphrase", "upload"}
    /\ \E s \in ReqIds :
           /\ reqs[s].kind = "paraphrase"
           /\ reqs[s].status = 200
           /\ s \notin DOMAIN sessions
    /\ files # {}

\* C21: after a run of optimizeDatabase in which neither statement threw,
\* the store holds no Session whose createdAt and no UploadedFile whose
\* uploadedAt lies more than 24 hours before the time of the run, whatever
\* the expiresAt of the row.
C21_SweepStaleComplete ==
    [][optimizeDatabaseWith("ok") =>
          /\ \A s \in DOMAIN sessions' :
                 ~(sessions'[s].createdAt < now - StaleHours)
          /\ \A f \in files' : ~(f.uploadedAt < now - StaleHours)]_vars

\* more than a day after two requests were answered, the Session of the one
\* and the row of the other, both received more than 24 hours ago, are gone
C21_Witness ==
    /\ now > StaleHours
    /\ \E s \in ReqIds :
           /\ reqs[s].kind = "paraphrase"
           /\ reqs[s].status = 200
           /\ reqs[s].expiresAt - TTL < now - StaleHours
           /\ s \notin DOMAIN sessions
    /\ \E u \in ReqIds :
           /\ reqs[u].kind = "upload"
           /\ reqs[u].status = 200
           /\ reqs[u].expiresAt - TTL < now - StaleHours
           /\ \A f \in files : f.sessionId # u

\* C22: in every step that keeps a Session in the store, its originalText,
\* createdAt and expiresAt stay as they are, and its paraphrasedText changes
\* only from null, and then to the rewritten text the oracle returned for
\* the request that created the Session; so it changes at most once.
C22_SessionWrittenOnce ==
    [][\A s \in DOMAIN sessions \cap DOMAIN sessions' :
          /\ sessions'[s].originalText = sessions[s].originalText
          /\ sessions'[s].createdAt = sessions[s].createdAt
          /\ sessions'[s].expiresAt = sessions[s].expiresAt
          /\ sessions'[s].paraphrasedText # sessions[s].paraphrasedText =>
                 /\ sessions[s].paraphrasedText = None
                 /\ sessions'[s].paraphrasedText # None
                 /\ sessions'[s].paraphrasedText = reqs[s].result.paraphrasedText]_vars

\* a Session that holds its rewritten text is still stored after its
\* lifetime has passed and further requests and sweeps have run
C22_Witness ==
    \E s \in DOMAIN sessions :
        /\ sessions[s].paraphrasedText # None
        /\ reqs[s].pc = "done"
        /\ sessions[s].expiresAt < now
        /\ \E r \in ReqIds : reqs[r].kind \in {"get", "clear"}

C25_ClearRemovesAllOfClient ==
    [][(client.currentSessionId # None /\ HookClearSessionWith("ok")) =>
          \A s \in client.seen :
              /\ s \notin DOMAIN sessions'
              /\ \A f \in files' : f.sessionId # s]_vars

\* C26: any two returned highlights of the same kind, adjacent in the
\* result or not, are separated by a gap: a.end < b.start for a before b.
\* Stated for the calls in which every phrase is non-empty, so that no
\* highlight is an empty span.
C26_SameKindNeverTouch ==
    (Done /\ PhrasesNonEmpty) =>
        \A i, j \in 1..Len(merged) :
            (i < j /\ merged[i].type = merged[j].type)
                => merged[i].end < merged[j].start

\* C27: in the step in which a paraphrase request is answered 200 with a
\* rewritten text, the store holds the Session of the request, and that
\* Session holds the rewritten text and the highlights of the answer.
C27_AnsweredSessionStored ==
    [][\A r \in ReqIds :
          ( /\ reqs[r].kind = "paraphrase"
            /\ reqs[r].status # 200
            /\ reqs'[r].status = 200
            /\ reqs'[r].result.paraphrasedText # None )
          => /\ r \in DOMAIN sessions'
             /\ sessions'[r].paraphrasedText = reqs'[r].result.paraphrasedText
             /\ sessions'[r].highlights = reqs'[r].result.highlights]_vars

\* C28: when the oracle call throws or returns no parseable payload, the
\* step ends the request with the answer 500 and leaves the store as it is;
\* from then on the request takes no further step (no update, no delete, no
\* second oracle call), and its Session, while stored, is the pending row
\* (paraphrasedText null, highlights null), which only a run of
\* deleteExpiredFiles or optimizeDatabase removes.
C28_FailedRewriteLeavesPending ==
    [][/\ \A r \in ReqIds : \A response \in OracleResponses :
             (response.kind # "json" /\ ParaphraseOracleWith(r, response))
                 => /\ reqs'[r].pc = "done"
                    /\ reqs'[r].status = 500
                    /\ sessions' = sessions
       /\ \A r \in ReqIds :
             (reqs[r].kind = "paraphrase" /\ reqs[r].status = 500)
                 => /\ reqs'[r] = reqs[r]
                    /\ r \in DOMAIN sessions =>
                          /\ sessions[r].paraphrasedText = None
                          /\ sessions[r].highlights = None
                          /\ \/ r \in DOMAIN sessions' /\ sessions'[r] = sessions[r]
                             \/ /\ r \notin DOMAIN sessions'
                                /\ deleteExpiredFiles \/ optimizeDatabase]_vars

\* the request was answered 500 and its pending Session, expired by now, is
\* still stored: no sweep has run since
C28_Witness ==
    \E r \in DOMAIN sessions :
        /\ reqs[r].kind = "paraphrase"
        /\ reqs[r].status = 500
        /\ sessions[r].paraphrasedText = None
        /\ sessions[r].highlights = None
        /\ sessions[r].expiresAt < now

\* C29: no run of cleanupExpiredFiles removes from uploads/ the file of a
\* stored UploadedFile whose expiresAt is later than the time of the run.
C29_FsCleanupSparesAlive ==
    [][cleanupExpiredFiles =>
          \A f \in files :
              (f.expiresAt > now /\ f.filePath \in DOMAIN disk)
                  => f.filePath \in DOMAIN disk']_vars

\* the characters of the pieces, one piece after the other
RECURSIVE JoinParts(_)
JoinParts(ps) ==
    IF ps = << >> THEN << >> ELSE Head(ps).text \o JoinParts(Tail(ps))

\* C30: the pieces renderHighlightedText produces for a rewritten text and
\* the highlights generateHighlights returned for it, concatenated in
\* order, are the rewritten text. Stated for the results in which no
\* highlight is empty and no two highlights of the same kind overlap or
\* touch, so that only highlights of different kinds may overlap.
C30_RenderedIsText ==
    ( /\ hpc = "rendered"
      /\ \A i \in 1..Len(merged) : merged[i].start < merged[i].end
      /\ \A i, j \in 1..Len(merged) :
             (i < j /\ merged[i].type = merged[j].type)
                 => merged[i].end < merged[j].start )
    => JoinParts(parts) = paraphrasedText

====
